---- MODULE Spec2Model ----
(***************************************************************************)
(* Model of terraform-provider-tinymon: the provider configuration, the    *)
(* TinyMonClient.DoJSON helper, and the tinymon_host and tinymon_check     *)
(* resources (Create, Read, Update, Delete, ImportState), driven by the    *)
(* Terraform orchestrator against the TinyMon Push API.                    *)
(*                                                                         *)
(* A Go string is a sequence of tokens: one token per character, except    *)
(* that a string literal of the program is a single token.  The empty      *)
(* string is << >>.                                                         *)
(***************************************************************************)
EXTENDS Integers, Sequences, FiniteSets, TLC

VARIABLES
    client,         \* the *TinyMonClient handed to the resources, or Nil
    provDiags,      \* diagnostics of the last provider Configure
    hostState,      \* Terraform's stored state of the tinymon_host resource
    checkState,     \* Terraform's stored state of the tinymon_check resource
    importing,      \* the state ImportState produced, awaiting its Read, or Nil
    remoteHosts,    \* hosts held by the TinyMon instance
    remoteChecks,   \* checks held by the TinyMon instance
    managed,        \* the resource type the configuration declares
    applied,        \* the upsert or delete that just succeeded and its request body, or Nil
    last            \* what the last operation was given, sent, received and reported

vars == <<client, provDiags, hostState, checkState, importing,
          remoteHosts, remoteChecks, managed, applied, last>>

(***************************************************************************)
(* Bounds                                                                  *)
(***************************************************************************)
\* largest id the TinyMon instance assigns
MaxId == 2
\* longest check import identifier, in characters
MaxIdLen == 5

(***************************************************************************)
(* Go and framework values                                                 *)
(***************************************************************************)
Nil == [nil |-> TRUE]

Null == [k |-> "null"]
Unknown == [k |-> "unknown"]
StringValue(s) == [k |-> "val", v |-> s]
Int64Value(n) == [k |-> "val", v |-> n]
BoolValue(b) == [k |-> "val", v |-> b]
IsNull(x) == x.k = "null"
IsUnknown(x) == x.k = "unknown"
ValueString(x) == IF x.k = "val" THEN x.v ELSE << >>
ValueInt64(x) == IF x.k = "val" THEN x.v ELSE 0
ValueBool(x) == IF x.k = "val" THEN x.v ELSE FALSE

\* strings.TrimRight(s, "/")
RECURSIVE TrimRight(_)
TrimRight(s) ==
    IF s # << >> /\ s[Len(s)] = "/" THEN TrimRight(SubSeq(s, 1, Len(s) - 1)) ELSE s

\* net/url: the characters QueryEscape leaves alone
Unreserved == {"a", "b", "d", "h", "k", "n", "p", "q", "t", "u", "0", "2", "5", "7", "B", "D", "F"}
HexDigits == {"a", "b", "d", "0", "2", "5", "7", "B", "D", "F"}

\* url.QueryEscape of one character
EscapeChar(c) ==
    IF c \in Unreserved THEN <<c>>
    ELSE IF c = " " THEN <<"+">>
    ELSE IF c = "/" THEN <<"%", "2", "F">>
    ELSE IF c = "{" THEN <<"%", "7", "B">>
    ELSE IF c = "}" THEN <<"%", "7", "D">>
    ELSE <<"%", "2", "5">>

\* url.QueryEscape
RECURSIVE QueryEscape(_)
QueryEscape(s) ==
    IF s = << >> THEN << >> ELSE EscapeChar(Head(s)) \o QueryEscape(Tail(s))

\* http.NewRequest parses the URL: a "%" must start a %XX escape
NewRequestOK(url) ==
    \A i \in 1..Len(url) :
        url[i] = "%" =>
            /\ i + 2 <= Len(url)
            /\ url[i + 1] \in HexDigits
            /\ url[i + 2] \in HexDigits

(***************************************************************************)
(* HTTP bodies.  A raw response body is empty, a JSON object or other text *)
(***************************************************************************)
EmptyBody == [kind |-> "empty"]
TextBody == [kind |-> "text"]
JsonBody(obj) == [kind |-> "json", obj |-> obj]
BodyLen(b) == IF b.kind = "empty" THEN 0 ELSE 1

\* json.Unmarshal into a struct: fields the object carries are set, others kept
Unmarshal(obj, result) ==
    [f \in DOMAIN result |-> IF f \in DOMAIN obj THEN obj[f] ELSE result[f]]

NoErr == [kind |-> "none"]
TransportFailure == [kind |-> "transport"]
HttpResponse(status, body) == [kind |-> "http", status |-> status, body |-> body]
NoResponse == [kind |-> "noresponse"]

\* DoJSON with the upper end of the status check lost
MutDoJSONRange(c, method, path, body, result, resp) ==
    LET url == TrimRight(c.URL) \o path
        req == [method |-> method, url |-> url, path |-> path,
                authorization |-> <<"Bearer ">> \o c.APIKey,
                contentType |-> body # Nil, body |-> body]
    IN  IF ~NewRequestOK(url)
        THEN [calls |-> << >>, err |-> [kind |-> "creating request"], result |-> result]
        ELSE IF resp.kind = "transport"
        THEN [calls |-> <<req>>,
              err |-> [kind |-> "executing request", method |-> method, path |-> path],
              result |-> result]
        ELSE IF resp.status < 200
        THEN [calls |-> <<req>>,
              err |-> [kind |-> "API returned status", method |-> method, path |-> path,
                       status |-> resp.status, body |-> resp.body],
              result |-> result]
        ELSE IF result # Nil /\ BodyLen(resp.body) > 0
        THEN IF resp.body.kind = "json"
             THEN [calls |-> <<req>>, err |-> NoErr,
                   result |-> Unmarshal(resp.body.obj, result)]
             ELSE [calls |-> <<req>>, err |-> [kind |-> "unmarshalling response"],
                   result |-> result]
        ELSE [calls |-> <<req>>, err |-> NoErr, result |-> result]

\* DoJSON decoding the response when a request body was given, not a result
MutDoJSONBodyNil(c, method, path, body, result, resp) ==
    LET url == TrimRight(c.URL) \o path
        req == [method |-> method, url |-> url, path |-> path,
                authorization |-> <<"Bearer ">> \o c.APIKey,
                contentType |-> body # Nil, body |-> body]
    IN  IF ~NewRequestOK(url)
        THEN [calls |-> << >>, err |-> [kind |-> "creating request"], result |-> result]
        ELSE IF resp.kind = "transport"
        THEN [calls |-> <<req>>,
              err |-> [kind |-> "executing request", method |-> method, path |-> path],
              result |-> result]
        ELSE IF resp.status < 200 \/ resp.status >= 300
        THEN [calls |-> <<req>>,
              err |-> [kind |-> "API returned status", method |-> method, path |-> path,
                       status |-> resp.status, body |-> resp.body],
              result |-> result]
        ELSE IF body # Nil /\ BodyLen(resp.body) > 0
        THEN IF resp.body.kind = "json"
             THEN [calls |-> <<req>>, err |-> NoErr,
                   result |-> Unmarshal(resp.body.obj, result)]
             ELSE [calls |-> <<req>>, err |-> [kind |-> "unmarshalling response"],
                   result |-> result]
        ELSE [calls |-> <<req>>, err |-> NoErr, result |-> result]

\* DoJSON sending the request again after a transport failure
MutDoJSONRetry(c, method, path, body, result, resp) ==
    LET url == TrimRight(c.URL) \o path
        req == [method |-> method, url |-> url, path |-> path,
                authorization |-> <<"Bearer ">> \o c.APIKey,
                contentType |-> body # Nil, body |-> body]
    IN  IF ~NewRequestOK(url)
        THEN [calls |-> << >>, err |-> [kind |-> "creating request"], result |-> result]
        ELSE IF resp.kind = "transport"
        THEN [calls |-> <<req, req>>,
              err |-> [kind |-> "executing request", method |-> method, path |-> path],
              result |-> result]
        ELSE IF resp.status < 200 \/ resp.status >= 300
        THEN [calls |-> <<req>>,
              err |-> [kind |-> "API returned status", method |-> method, path |-> path,
                       status |-> resp.status, body |-> resp.body],
              result |-> result]
        ELSE IF result # Nil /\ BodyLen(resp.body) > 0
        THEN IF resp.body.kind = "json"
             THEN [calls |-> <<req>>, err |-> NoErr,
                   result |-> Unmarshal(resp.body.obj, result)]
             ELSE [calls |-> <<req>>, err |-> [kind |-> "unmarshalling response"],
                   result |-> result]
        ELSE [calls |-> <<req>>, err |-> NoErr, result |-> result]

\* TinyMonClient.DoJSON: the calls issued, the error returned and *result
DoJSON(c, method, path, body, result, resp) ==
    LET url == TrimRight(c.URL) \o path
        req == [method |-> method, url |-> url, path |-> path,
                authorization |-> <<"Bearer ">> \o c.APIKey,
                contentType |-> body # Nil, body |-> body]
    IN  IF ~NewRequestOK(url)
        THEN [calls |-> << >>, err |-> [kind |-> "creating request"], result |-> result]
        ELSE IF resp.kind = "transport"
        THEN [calls |-> <<req>>,
              err |-> [kind |-> "executing request", method |-> method, path |-> path],
              result |-> result]
        ELSE IF resp.status < 200 \/ resp.status >= 300
        THEN [calls |-> <<req>>,
              err |-> [kind |-> "API returned status", method |-> method, path |-> path,
                       status |-> resp.status, body |-> resp.body],
              result |-> result]
        ELSE IF result # Nil /\ BodyLen(resp.body) > 0
        THEN IF resp.body.kind = "json"
             THEN [calls |-> <<req>>, err |-> NoErr,
                   result |-> Unmarshal(resp.body.obj, result)]
             ELSE [calls |-> <<req>>, err |-> [kind |-> "unmarshalling response"],
                   result |-> result]
        ELSE [calls |-> <<req>>, err |-> NoErr, result |-> result]

(***************************************************************************)
(* The TinyMon Push API, as the provider's requests and README describe it *)
(***************************************************************************)
Statuses == {200, 299, 300, 404}
BodyKinds == {"record", "empty", "text"}
Answers == {TransportFailure} \cup [kind : {"http"}, status : Statuses, body : BodyKinds]

Is2xx(status) == status >= 200 /\ status < 300

\* url.QueryUnescape, the inverse the server applies to a query value
RECURSIVE QueryUnescape(_)
QueryUnescape(s) ==
    IF s = << >> THEN << >>
    ELSE IF Head(s) = "+" THEN <<" ">> \o QueryUnescape(Tail(s))
    ELSE IF Head(s) = "%" /\ Len(s) >= 3
    THEN LET c == IF <<s[2], s[3]>> = <<"2", "F">> THEN "/"
                  ELSE IF <<s[2], s[3]>> = <<"7", "B">> THEN "{"
                  ELSE IF <<s[2], s[3]>> = <<"7", "D">> THEN "}"
                  ELSE "%"
         IN  <<c>> \o QueryUnescape(SubSeq(s, 4, Len(s)))
    ELSE <<Head(s)>> \o QueryUnescape(Tail(s))

HostsPath == <<"/api/push/hosts">>
HostsQuery == <<"/api/push/hosts?address=">>
ChecksPath == <<"/api/push/checks">>
ChecksQuery == <<"/api/push/checks?host_address=">>
TypeParam == <<"&type=">>
ConfigParam == <<"&config=">>

IndexOf(s, tok) == CHOOSE i \in 1..Len(s) : s[i] = tok /\ \A j \in 1..(i - 1) : s[j] # tok

\* the id the instance gives the next new entity
RemoteNextId(store) ==
    IF store = {} THEN 1
    ELSE (CHOOSE e \in store : \A f \in store : f.id <= e.id).id + 1

\* the natural key a request names
RemoteHostKey(req) ==
    IF req.method = "GET" THEN QueryUnescape(Tail(req.path)) ELSE req.body.address

RemoteCheckKey(req) ==
    IF req.method = "GET"
    THEN LET t == IndexOf(req.path, TypeParam[1])
             c == IndexOf(req.path, ConfigParam[1])
         IN  [host_address |-> QueryUnescape(SubSeq(req.path, 2, t - 1)),
              type |-> QueryUnescape(SubSeq(req.path, t + 1, c - 1)),
              config |-> QueryUnescape(SubSeq(req.path, c + 1, Len(req.path)))]
    ELSE [host_address |-> req.body.host_address, type |-> req.body.type,
          config |-> req.body.config]

RemoteHostAt(hosts, address) == {h \in hosts : h.address = address}
RemoteCheckAt(checks, key) ==
    {c \in checks : c.host_address = key.host_address /\ c.type = key.type
                    /\ c.config = key.config}

\* POST /api/push/hosts: create the host or overwrite the one at the address
RemoteHostUpsert(hosts, body) ==
    LET old == RemoteHostAt(hosts, body.address)
        new == [id |-> IF old = {} THEN RemoteNextId(hosts) ELSE (CHOOSE h \in old : TRUE).id,
                name |-> IF "name" \in DOMAIN body THEN body.name ELSE body.address,
                address |-> body.address,
                description |-> body.description,
                topic |-> body.topic,
                enabled |-> body.enabled]
    IN  (hosts \ old) \cup {new}

\* POST /api/push/checks: create the check or overwrite the one at the key
RemoteCheckUpsert(checks, body) ==
    LET key == [host_address |-> body.host_address, type |-> body.type, config |-> body.config]
        old == RemoteCheckAt(checks, key)
        new == [id |-> IF old = {} THEN RemoteNextId(checks) ELSE (CHOOSE c \in old : TRUE).id,
                host_address |-> body.host_address,
                type |-> body.type,
                config |-> body.config,
                interval_seconds |-> body.interval_seconds,
                enabled |-> body.enabled]
    IN  (checks \ old) \cup {new}

\* the JSON the instance returns for a check: the host is named by its id
RemoteCheckJson(c) ==
    [id |-> c.id, host_id |-> 1, type |-> c.type, config |-> c.config,
     interval_seconds |-> c.interval_seconds, enabled |-> c.enabled]

RemoteAt(res, store, req) ==
    IF res = "host" THEN RemoteHostAt(store, RemoteHostKey(req))
    ELSE RemoteCheckAt(store, RemoteCheckKey(req))

\* can the instance give this answer to this request?
RemoteCan(res, store, req, ans) ==
    \/ ans.kind = "transport"
    \/ /\ ans.kind = "http"
       /\ ~Is2xx(ans.status) => ans.body # "record"
       /\ Is2xx(ans.status) =>
            /\ req.method = "GET" => RemoteAt(res, store, req) # {}
            /\ req.method = "DELETE" => ans.body # "record"
            /\ req.method = "POST" /\ RemoteAt(res, store, req) = {} =>
                    RemoteNextId(store) <= MaxId

\* the instance's entities after the request
RemoteAfter(res, store, req, ans) ==
    IF ans.kind = "http" /\ Is2xx(ans.status)
    THEN IF req.method = "POST"
         THEN IF res = "host" THEN RemoteHostUpsert(store, req.body)
              ELSE RemoteCheckUpsert(store, req.body)
         ELSE IF req.method = "DELETE" THEN store \ RemoteAt(res, store, req)
         ELSE store
    ELSE store

\* what HTTP.Do returns for the request
RemoteResponse(res, store, req, ans) ==
    IF ans.kind = "transport" THEN TransportFailure
    ELSE HttpResponse(ans.status,
            IF ans.body = "empty" THEN EmptyBody
            ELSE IF ans.body = "text" THEN TextBody
            ELSE LET e == CHOOSE x \in RemoteAt(res, RemoteAfter(res, store, req, ans), req) : TRUE
                 IN  JsonBody(IF res = "host" THEN e ELSE RemoteCheckJson(e)))

(***************************************************************************)
(* The record kept of the last operation                                   *)
(***************************************************************************)
Stored(res) == IF res = "host" THEN hostState ELSE IF res = "check" THEN checkState ELSE Nil
Remote(res) == IF res = "host" THEN remoteHosts ELSE IF res = "check" THEN remoteChecks ELSE {}

Op(res, op, cfg, plan, prior, calls, err, resp, diags) ==
    [res |-> res, op |-> op, cfg |-> cfg, plan |-> plan, prior |-> prior,
     stored |-> Stored(res), applied |-> applied, remote |-> Remote(res),
     calls |-> calls, err |-> err, resp |-> resp, diags |-> diags]

NoOp ==
    [res |-> "none", op |-> "none", cfg |-> Nil, plan |-> Nil, prior |-> Nil,
     stored |-> Nil, applied |-> Nil, remote |-> {},
     calls |-> << >>, err |-> NoErr, resp |-> NoResponse, diags |-> << >>]
Idle == last = NoOp

Diag(summary, detail) == [summary |-> summary, detail |-> detail]

\* the orchestrator takes the operation's outcome and goes on
Return ==
    /\ ~Idle
    /\ last' = NoOp
    /\ UNCHANGED <<client, provDiags, hostState, checkState, importing,
                   remoteHosts, remoteChecks, managed, applied>>

\* one exchange with the instance: DoJSON's outcome and the entities afterwards
Exchange(res, method, path, body, result, ans) ==
    LET url == TrimRight(client.URL) \o path
        req == [method |-> method, path |-> path, body |-> body]
        sent == NewRequestOK(url)
        resp == IF sent THEN RemoteResponse(res, Remote(res), req, ans) ELSE NoResponse
    IN  [out |-> DoJSON(client, method, path, body, result, resp),
         resp |-> resp,
         store |-> IF sent THEN RemoteAfter(res, Remote(res), req, ans) ELSE Remote(res)]

Answerable(res, method, path, body, ans) ==
    RemoteCan(res, Remote(res), [method |-> method, path |-> path, body |-> body], ans)

(***************************************************************************)
(* provider.go: tinymonProvider.Configure                                  *)
(***************************************************************************)
ConfigValues(texts) == {Null, Unknown} \cup {StringValue(t) : t \in texts}
UrlTexts == {<< >>, <<"u", "/">>, <<"%">>}
KeyTexts == {<< >>, <<"k">>}
EnvUrls == {<< >>, <<"u", "/">>}
EnvKeys == {<< >>, <<"k">>}

\* a setting is the configuration value when set and known, else the environment's
Resolve(configured, env) ==
    IF ~IsNull(configured) /\ ~IsUnknown(configured) THEN ValueString(configured) ELSE env

ConfigureDiags(url, apiKey) ==
    (IF url = << >> THEN <<Diag("Missing TinyMon URL", NoErr)>> ELSE << >>) \o
    (IF apiKey = << >> THEN <<Diag("Missing TinyMon API Key", NoErr)>> ELSE << >>)

\* Configure handing the client over whatever the diagnostics say
MutConfiguredClient(url, apiKey) == [URL |-> url, APIKey |-> apiKey]

\* resp.ResourceData after Configure
ConfiguredClient(url, apiKey) ==
    IF ConfigureDiags(url, apiKey) # << >> THEN Nil
    ELSE [URL |-> url, APIKey |-> apiKey]

\* a Terraform run starts the provider and configures it
Configure(cfgUrl, cfgKey, envUrl, envKey) ==
    LET url == Resolve(cfgUrl, envUrl)
        apiKey == Resolve(cfgKey, envKey)
    IN  /\ Idle
        /\ client = Nil
        /\ provDiags = << >>
        /\ client' = ConfiguredClient(url, apiKey)
        /\ provDiags' = ConfigureDiags(url, apiKey)
        /\ last' = Op("provider", "Configure",
                      [url |-> cfgUrl, api_key |-> cfgKey, envUrl |-> envUrl, envKey |-> envKey],
                      Nil, Nil, << >>, NoErr, NoResponse, ConfigureDiags(url, apiKey))
        /\ UNCHANGED <<hostState, checkState, importing, remoteHosts, remoteChecks,
                       managed, applied>>

\* the orchestrator calls the resources only after a Configure without errors
Ready(res) == Idle /\ client # Nil /\ provDiags = << >> /\ managed = res

(***************************************************************************)
(* host_resource.go: the tinymon_host resource                             *)
(***************************************************************************)
HostAddresses == {<<"a">>, <<"b">>}
\* the configurations of the host: at address a, enabled varies with the other
\* attributes left out, and name, description and topic vary with enabled left
\* out; address b is there for the change of address
HostConfigs ==
    {[address |-> StringValue(<<"a">>), name |-> Null, description |-> Null,
      topic |-> Null, enabled |-> e] : e \in {Null, BoolValue(TRUE), BoolValue(FALSE)}}
    \cup {[address |-> StringValue(<<"a">>), name |-> StringValue(<<"n">>),
           description |-> t.description, topic |-> t.topic, enabled |-> Null] :
            t \in {[description |-> Null, topic |-> Null],
                   [description |-> StringValue(<<"d">>), topic |-> Null],
                   [description |-> StringValue(<<"d">>),
                    topic |-> StringValue(<<"t", "/", "t">>)]}}
    \cup {[address |-> StringValue(<<"b">>), name |-> Null, description |-> Null,
           topic |-> Null, enabled |-> Null]}

\* hostResource.Schema without RequiresReplace on address
MutHostRequiresReplace == {}

\* hostResource.Schema: the attributes whose change forces a new resource
HostRequiresReplace == {"Address"}

\* hostResource.Schema: the plan the framework derives from the configuration
HostPlan(cfg, prior) ==
    [ID |-> IF prior = Nil THEN Unknown ELSE prior.ID,
     Address |-> cfg.address,
     Name |-> IF IsNull(cfg.name) THEN Unknown ELSE cfg.name,
     Description |-> IF IsNull(cfg.description) THEN StringValue(<< >>) ELSE cfg.description,
     Topic |-> IF IsNull(cfg.topic) THEN StringValue(<< >>) ELSE cfg.topic,
     Enabled |-> IF IsNull(cfg.enabled) THEN BoolValue(TRUE) ELSE cfg.enabled]

\* the framework's plan modifiers: does the plan force a new resource?
HostNeedsReplace(state, plan) ==
    \E attr \in HostRequiresReplace : plan[attr] # state[attr]

\* json.Marshal of hostAPIRequest: name is omitted when empty
MarshalHostRequest(r) ==
    IF r.Name = << >>
    THEN [address |-> r.Address, description |-> r.Description,
          topic |-> r.Topic, enabled |-> r.Enabled]
    ELSE [address |-> r.Address, name |-> r.Name, description |-> r.Description,
          topic |-> r.Topic, enabled |-> r.Enabled]

ZeroHostAPIResponse ==
    [id |-> 0, name |-> << >>, address |-> << >>, description |-> << >>,
     topic |-> << >>, enabled |-> 0]

mapHostResponseToState(apiResp, state) ==
    [state EXCEPT !.ID = Int64Value(apiResp.id),
                  !.Address = StringValue(apiResp.address),
                  !.Name = StringValue(apiResp.name),
                  !.Description = StringValue(apiResp.description),
                  !.Topic = StringValue(apiResp.topic),
                  !.Enabled = BoolValue(apiResp.enabled # 0)]

\* Create sending every host as enabled
MutHostCreateBody(plan) ==
    MarshalHostRequest([Address |-> ValueString(plan.Address),
                        Name |-> ValueString(plan.Name),
                        Description |-> ValueString(plan.Description),
                        Topic |-> ValueString(plan.Topic),
                        Enabled |-> 1])

\* hostResource.Create: the request body built from the plan
HostCreateBody(plan) ==
    LET enabled == IF ~IsNull(plan.Enabled) /\ ~ValueBool(plan.Enabled) THEN 0 ELSE 1
    IN  MarshalHostRequest([Address |-> ValueString(plan.Address),
                            Name |-> ValueString(plan.Name),
                            Description |-> ValueString(plan.Description),
                            Topic |-> ValueString(plan.Topic),
                            Enabled |-> enabled])

\* Update leaving the topic out of the request
MutHostUpdateBody(plan) ==
    LET enabled == IF ~IsNull(plan.Enabled) /\ ~ValueBool(plan.Enabled) THEN 0 ELSE 1
    IN  MarshalHostRequest([Address |-> ValueString(plan.Address),
                            Name |-> ValueString(plan.Name),
                            Description |-> ValueString(plan.Description),
                            Topic |-> << >>,
                            Enabled |-> enabled])

\* hostResource.Update: the request body built from the plan
HostUpdateBody(plan) ==
    LET enabled == IF ~IsNull(plan.Enabled) /\ ~ValueBool(plan.Enabled) THEN 0 ELSE 1
    IN  MarshalHostRequest([Address |-> ValueString(plan.Address),
                            Name |-> ValueString(plan.Name),
                            Description |-> ValueString(plan.Description),
                            Topic |-> ValueString(plan.Topic),
                            Enabled |-> enabled])

HostCreate(cfg, ans) ==
    LET plan == HostPlan(cfg, Nil)
        body == HostCreateBody(plan)
        x == Exchange("host", "POST", HostsPath, body, ZeroHostAPIResponse, ans)
    IN  /\ Ready("host")
        /\ importing = Nil
        /\ hostState = Nil
        /\ Answerable("host", "POST", HostsPath, body, ans)
        /\ remoteHosts' = x.store
        /\ IF x.out.err # NoErr
           THEN /\ hostState' = hostState
                /\ applied' = Nil
                /\ last' = Op("host", "Create", cfg, plan, Nil, x.out.calls, x.out.err, x.resp,
                              <<Diag("Error creating host", x.out.err)>>)
           ELSE /\ hostState' = mapHostResponseToState(x.out.result, plan)
                /\ applied' = [op |-> "upsert", body |-> body]
                /\ last' = Op("host", "Create", cfg, plan, Nil, x.out.calls, NoErr, x.resp, << >>)
        /\ UNCHANGED <<client, provDiags, checkState, importing, remoteChecks, managed>>

\* the state Read is given: the imported one during an import, else the stored one
HostReadInput == IF importing # Nil THEN importing ELSE hostState

\* Read asking for the host by its id
MutHostReadPath(state) ==
    <<"/api/push/hosts?id=", ToString(ValueInt64(state.ID))>>

\* hostResource.Read: the path and query built from the state
HostReadPath(state) == HostsQuery \o QueryEscape(ValueString(state.Address))

\* Read taking a 404 as the host being gone and dropping it from state
MutHostReadDropsMissing(ans) ==
    LET state == HostReadInput
        apiPath == HostReadPath(state)
        x == Exchange("host", "GET", apiPath, Nil, ZeroHostAPIResponse, ans)
    IN  /\ Ready("host")
        /\ state # Nil
        /\ Answerable("host", "GET", apiPath, Nil, ans)
        /\ remoteHosts' = x.store
        /\ importing' = Nil
        /\ applied' = Nil
        /\ IF x.out.err # NoErr /\ x.resp.kind = "http" /\ x.resp.status = 404
           THEN /\ hostState' = Nil
                /\ last' = Op("host", "Read", Nil, Nil, state, x.out.calls, NoErr, x.resp, << >>)
           ELSE IF x.out.err # NoErr
           THEN /\ hostState' = hostState
                /\ last' = Op("host", "Read", Nil, Nil, state, x.out.calls, x.out.err, x.resp,
                              <<Diag("Error reading host", x.out.err)>>)
           ELSE /\ hostState' = mapHostResponseToState(x.out.result, state)
                /\ last' = Op("host", "Read", Nil, Nil, state, x.out.calls, NoErr, x.resp, << >>)
        /\ UNCHANGED <<client, provDiags, checkState, remoteChecks, managed>>

HostRead(ans) ==
    LET state == HostReadInput
        apiPath == HostReadPath(state)
        x == Exchange("host", "GET", apiPath, Nil, ZeroHostAPIResponse, ans)
    IN  /\ Ready("host")
        /\ state # Nil
        /\ Answerable("host", "GET", apiPath, Nil, ans)
        /\ remoteHosts' = x.store
        /\ importing' = Nil
        /\ applied' = Nil
        /\ IF x.out.err # NoErr
           THEN /\ hostState' = hostState
                /\ last' = Op("host", "Read", Nil, Nil, state, x.out.calls, x.out.err, x.resp,
                              <<Diag("Error reading host", x.out.err)>>)
           ELSE /\ hostState' = mapHostResponseToState(x.out.result, state)
                /\ last' = Op("host", "Read", Nil, Nil, state, x.out.calls, NoErr, x.resp, << >>)
        /\ UNCHANGED <<client, provDiags, checkState, remoteChecks, managed>>

HostUpdate(cfg, ans) ==
    LET plan == HostPlan(cfg, hostState)
        body == HostUpdateBody(plan)
        x == Exchange("host", "POST", HostsPath, body, ZeroHostAPIResponse, ans)
    IN  /\ Ready("host")
        /\ importing = Nil
        /\ hostState # Nil
        /\ ~HostNeedsReplace(hostState, plan)
        /\ Answerable("host", "POST", HostsPath, body, ans)
        /\ remoteHosts' = x.store
        /\ IF x.out.err # NoErr
           THEN /\ hostState' = hostState
                /\ applied' = Nil
                /\ last' = Op("host", "Update", cfg, plan, hostState, x.out.calls, x.out.err,
                              x.resp, <<Diag("Error updating host", x.out.err)>>)
           ELSE /\ hostState' = mapHostResponseToState(x.out.result, plan)
                /\ applied' = [op |-> "upsert", body |-> body]
                /\ last' = Op("host", "Update", cfg, plan, hostState, x.out.calls, NoErr,
                              x.resp, << >>)
        /\ UNCHANGED <<client, provDiags, checkState, importing, remoteChecks, managed>>

\* Delete sending the id along with the address
MutHostDeleteBody(state) ==
    [address |-> ValueString(state.Address), id |-> ValueInt64(state.ID)]

\* hostResource.Delete: the request body built from the state
HostDeleteBody(state) == [address |-> ValueString(state.Address)]

HostDelete(ans) ==
    LET body == HostDeleteBody(hostState)
        x == Exchange("host", "DELETE", HostsPath, body, Nil, ans)
    IN  /\ Ready("host")
        /\ importing = Nil
        /\ hostState # Nil
        /\ Answerable("host", "DELETE", HostsPath, body, ans)
        /\ remoteHosts' = x.store
        /\ IF x.out.err # NoErr
           THEN /\ hostState' = hostState
                /\ applied' = Nil
                /\ last' = Op("host", "Delete", Nil, Nil, hostState, x.out.calls, x.out.err,
                              x.resp, <<Diag("Error deleting host", x.out.err)>>)
           ELSE /\ hostState' = Nil
                /\ applied' = [op |-> "delete", body |-> body]
                /\ last' = Op("host", "Delete", Nil, Nil, hostState, x.out.calls, NoErr,
                              x.resp, << >>)
        /\ UNCHANGED <<client, provDiags, checkState, importing, remoteChecks, managed>>

NullHostState ==
    [ID |-> Null, Address |-> Null, Name |-> Null, Description |-> Null,
     Topic |-> Null, Enabled |-> Null]

HostImportState(id) ==
    /\ Ready("host")
    /\ importing = Nil
    /\ hostState = Nil
    /\ importing' = [NullHostState EXCEPT !.Address = StringValue(id)]
    /\ applied' = Nil
    /\ last' = Op("host", "Import", id, Nil, Nil, << >>, NoErr, NoResponse, << >>)
    /\ UNCHANGED <<client, provDiags, hostState, checkState, remoteHosts, remoteChecks, managed>>

\* what other clients of the instance push: the bodies this provider sends, and
\* one with another non-zero enabled
HostPushes ==
    {HostCreateBody(HostPlan(cfg, Nil)) : cfg \in HostConfigs}
    \cup {[address |-> <<"a">>, description |-> << >>, topic |-> << >>, enabled |-> 2]}

\* another client of the instance pushes or deletes a host
HostOutOfBand(body, delete) ==
    /\ Idle
    /\ managed = "host"
    /\ importing = Nil
    /\ IF delete
       THEN /\ RemoteHostAt(remoteHosts, body.address) # {}
            /\ remoteHosts' = remoteHosts \ RemoteHostAt(remoteHosts, body.address)
       ELSE /\ RemoteHostAt(remoteHosts, body.address) = {} => RemoteNextId(remoteHosts) <= MaxId
            /\ remoteHosts' = RemoteHostUpsert(remoteHosts, body)
    /\ remoteHosts' # remoteHosts
    /\ applied' = Nil
    /\ UNCHANGED <<client, provDiags, hostState, checkState, importing, remoteChecks,
                   managed, last>>

(***************************************************************************)
(* check_resource.go: the tinymon_check resource                           *)
(***************************************************************************)
DefaultConfig == <<"{", "}">>
DefaultIntervalSeconds == 300

\* the configurations of the check: at the key (a, p, {}), enabled varies with
\* the default interval and the interval varies with enabled left out; three
\* more keys differ from that key in one key attribute each
CheckConfigs ==
    {[host_address |-> StringValue(<<"a">>), type |-> StringValue(<<"p">>), config |-> Null,
      interval_seconds |-> Null, enabled |-> e] :
        e \in {Null, BoolValue(TRUE), BoolValue(FALSE)}}
    \cup {[host_address |-> StringValue(<<"a">>), type |-> StringValue(<<"p">>),
           config |-> Null, interval_seconds |-> Int64Value(60), enabled |-> Null]}
    \cup {[host_address |-> StringValue(k[1]), type |-> StringValue(k[2]), config |-> k[3],
           interval_seconds |-> Null, enabled |-> Null] :
            k \in {<<<<"b">>, <<"p">>, Null>>, <<<<"a">>, <<"q">>, Null>>,
                   <<<<"a">>, <<"p">>, StringValue(<<"{", "/", "}">>)>>}}

\* checkResource.Schema without RequiresReplace on config
MutCheckRequiresReplace == {"HostAddress", "Type"}

\* checkResource.Schema: the attributes whose change forces a new resource
CheckRequiresReplace == {"HostAddress", "Type", "Config"}

\* checkResource.Schema: the plan the framework derives from the configuration
CheckPlan(cfg, prior) ==
    [ID |-> IF prior = Nil THEN Unknown ELSE prior.ID,
     HostAddress |-> cfg.host_address,
     Type |-> cfg.type,
     Config |-> IF IsNull(cfg.config) THEN StringValue(DefaultConfig) ELSE cfg.config,
     IntervalSeconds |-> IF IsNull(cfg.interval_seconds)
                         THEN Int64Value(DefaultIntervalSeconds) ELSE cfg.interval_seconds,
     Enabled |-> IF IsNull(cfg.enabled) THEN BoolValue(TRUE) ELSE cfg.enabled]

\* the framework's plan modifiers: does the plan force a new resource?
CheckNeedsReplace(state, plan) ==
    \E attr \in CheckRequiresReplace : plan[attr] # state[attr]

ZeroCheckAPIResponse ==
    [id |-> 0, host_id |-> 0, type |-> << >>, config |-> << >>,
     interval_seconds |-> 0, enabled |-> 0]

\* the mapping leaving interval_seconds as it was
MutMapCheckKeepsInterval(apiResp, state) ==
    [state EXCEPT !.ID = Int64Value(apiResp.id),
                  !.Type = StringValue(apiResp.type),
                  !.Config = StringValue(apiResp.config),
                  !.Enabled = BoolValue(apiResp.enabled # 0)]

mapCheckResponseToState(apiResp, state) ==
    [state EXCEPT !.ID = Int64Value(apiResp.id),
                  !.Type = StringValue(apiResp.type),
                  !.Config = StringValue(apiResp.config),
                  !.IntervalSeconds = Int64Value(apiResp.interval_seconds),
                  !.Enabled = BoolValue(apiResp.enabled # 0)]

\* checkResource.Create: the request body built from the plan
CheckCreateBody(plan) ==
    LET enabled == IF ~IsNull(plan.Enabled) /\ ~ValueBool(plan.Enabled) THEN 0 ELSE 1
    IN  [host_address |-> ValueString(plan.HostAddress),
         type |-> ValueString(plan.Type),
         config |-> ValueString(plan.Config),
         interval_seconds |-> ValueInt64(plan.IntervalSeconds),
         enabled |-> enabled]

\* checkResource.Update: the request body built from the plan
CheckUpdateBody(plan) ==
    LET enabled == IF ~IsNull(plan.Enabled) /\ ~ValueBool(plan.Enabled) THEN 0 ELSE 1
    IN  [host_address |-> ValueString(plan.HostAddress),
         type |-> ValueString(plan.Type),
         config |-> ValueString(plan.Config),
         interval_seconds |-> ValueInt64(plan.IntervalSeconds),
         enabled |-> enabled]

CheckCreate(cfg, ans) ==
    LET plan == CheckPlan(cfg, Nil)
        body == CheckCreateBody(plan)
        x == Exchange("check", "POST", ChecksPath, body, ZeroCheckAPIResponse, ans)
    IN  /\ Ready("check")
        /\ importing = Nil
        /\ checkState = Nil
        /\ Answerable("check", "POST", ChecksPath, body, ans)
        /\ remoteChecks' = x.store
        /\ IF x.out.err # NoErr
           THEN /\ checkState' = checkState
                /\ applied' = Nil
                /\ last' = Op("check", "Create", cfg, plan, Nil, x.out.calls, x.out.err, x.resp,
                              <<Diag("Error creating check", x.out.err)>>)
           ELSE /\ checkState' = mapCheckResponseToState(x.out.result, plan)
                /\ applied' = [op |-> "upsert", body |-> body]
                /\ last' = Op("check", "Create", cfg, plan, Nil, x.out.calls, NoErr, x.resp, << >>)
        /\ UNCHANGED <<client, provDiags, hostState, importing, remoteHosts, managed>>

\* the state Read is given: the imported one during an import, else the stored one
CheckReadInput == IF importing # Nil THEN importing ELSE checkState

\* checkResource.Read: the path and query built from the state
CheckReadPath(state) ==
    ChecksQuery \o QueryEscape(ValueString(state.HostAddress))
    \o TypeParam \o QueryEscape(ValueString(state.Type))
    \o ConfigParam \o QueryEscape(ValueString(state.Config))

CheckRead(ans) ==
    LET state == CheckReadInput
        queryPath == CheckReadPath(state)
        x == Exchange("check", "GET", queryPath, Nil, ZeroCheckAPIResponse, ans)
    IN  /\ Ready("check")
        /\ state # Nil
        /\ Answerable("check", "GET", queryPath, Nil, ans)
        /\ remoteChecks' = x.store
        /\ importing' = Nil
        /\ applied' = Nil
        /\ IF x.out.err # NoErr
           THEN /\ checkState' = checkState
                /\ last' = Op("check", "Read", Nil, Nil, state, x.out.calls, x.out.err, x.resp,
                              <<Diag("Error reading check", x.out.err)>>)
           ELSE /\ checkState' = mapCheckResponseToState(x.out.result, state)
                /\ last' = Op("check", "Read", Nil, Nil, state, x.out.calls, NoErr, x.resp, << >>)
        /\ UNCHANGED <<client, provDiags, hostState, remoteHosts, managed>>

CheckUpdate(cfg, ans) ==
    LET plan == CheckPlan(cfg, checkState)
        body == CheckUpdateBody(plan)
        x == Exchange("check", "POST", ChecksPath, body, ZeroCheckAPIResponse, ans)
    IN  /\ Ready("check")
        /\ importing = Nil
        /\ checkState # Nil
        /\ ~CheckNeedsReplace(checkState, plan)
        /\ Answerable("check", "POST", ChecksPath, body, ans)
        /\ remoteChecks' = x.store
        /\ IF x.out.err # NoErr
           THEN /\ checkState' = checkState
                /\ applied' = Nil
                /\ last' = Op("check", "Update", cfg, plan, checkState, x.out.calls, x.out.err,
                              x.resp, <<Diag("Error updating check", x.out.err)>>)
           ELSE /\ checkState' = mapCheckResponseToState(x.out.result, plan)
                /\ applied' = [op |-> "upsert", body |-> body]
                /\ last' = Op("check", "Update", cfg, plan, checkState, x.out.calls, NoErr,
                              x.resp, << >>)
        /\ UNCHANGED <<client, provDiags, hostState, importing, remoteHosts, managed>>

\* checkResource.Delete: the request body built from the state
CheckDeleteBody(state) ==
    [host_address |-> ValueString(state.HostAddress),
     type |-> ValueString(state.Type),
     config |-> ValueString(state.Config)]

CheckDelete(ans) ==
    LET body == CheckDeleteBody(checkState)
        x == Exchange("check", "DELETE", ChecksPath, body, Nil, ans)
    IN  /\ Ready("check")
        /\ importing = Nil
        /\ checkState # Nil
        /\ Answerable("check", "DELETE", ChecksPath, body, ans)
        /\ remoteChecks' = x.store
        /\ IF x.out.err # NoErr
           THEN /\ checkState' = checkState
                /\ applied' = Nil
                /\ last' = Op("check", "Delete", Nil, Nil, checkState, x.out.calls, x.out.err,
                              x.resp, <<Diag("Error deleting check", x.out.err)>>)
           ELSE /\ checkState' = Nil
                /\ applied' = [op |-> "delete", body |-> body]
                /\ last' = Op("check", "Delete", Nil, Nil, checkState, x.out.calls, NoErr,
                              x.resp, << >>)
        /\ UNCHANGED <<client, provDiags, hostState, importing, remoteHosts, managed>>

Chars(s) == {s[i] : i \in 1..Len(s)}

\* strings.Split in place of SplitN: every separator splits
RECURSIVE MutSplitAll(_, _, _)
MutSplitAll(s, sep, n) ==
    IF sep \notin Chars(s) THEN <<s>>
    ELSE LET i == IndexOf(s, sep)
         IN  <<SubSeq(s, 1, i - 1)>> \o MutSplitAll(SubSeq(s, i + 1, Len(s)), sep, n)

\* strings.SplitN(s, sep, n) for n > 0
RECURSIVE SplitN(_, _, _)
SplitN(s, sep, n) ==
    IF n = 1 \/ sep \notin Chars(s) THEN <<s>>
    ELSE LET i == IndexOf(s, sep)
         IN  <<SubSeq(s, 1, i - 1)>> \o SplitN(SubSeq(s, i + 1, Len(s)), sep, n - 1)

NullCheckState ==
    [ID |-> Null, HostAddress |-> Null, Type |-> Null, Config |-> Null,
     IntervalSeconds |-> Null, Enabled |-> Null]

\* ImportState asking for three parts
MutCheckImportedStrict(id) ==
    LET parts == SplitN(id, "/", 3)
    IN  IF Len(parts) < 3 THEN Nil
        ELSE [NullCheckState EXCEPT !.HostAddress = StringValue(parts[1]),
                                    !.Type = StringValue(parts[2]),
                                    !.Config = StringValue(parts[3])]

\* checkResource.ImportState: resp.State, or Nil when the ID is refused
CheckImportedState(id) ==
    LET parts == SplitN(id, "/", 3)
        config == IF Len(parts) = 3 THEN parts[3] ELSE DefaultConfig
    IN  IF Len(parts) < 2 THEN Nil
        ELSE [NullCheckState EXCEPT !.HostAddress = StringValue(parts[1]),
                                    !.Type = StringValue(parts[2]),
                                    !.Config = StringValue(config)]

CheckImportState(id) ==
    /\ Ready("check")
    /\ importing = Nil
    /\ checkState = Nil
    /\ importing' = CheckImportedState(id)
    /\ applied' = Nil
    /\ last' = Op("check", "Import", id, Nil, Nil, << >>, NoErr, NoResponse,
                  IF CheckImportedState(id) = Nil
                  THEN <<Diag("Invalid import ID",
                              "Import ID must be: host_address/type or host_address/type/config")>>
                  ELSE << >>)
    /\ UNCHANGED <<client, provDiags, hostState, checkState, remoteHosts, remoteChecks, managed>>

\* what other clients of the instance push: the bodies this provider sends, and
\* one with another non-zero enabled
CheckPushes ==
    {CheckCreateBody(CheckPlan(cfg, Nil)) : cfg \in CheckConfigs}
    \cup {[host_address |-> <<"a">>, type |-> <<"p">>, config |-> DefaultConfig,
            interval_seconds |-> DefaultIntervalSeconds, enabled |-> 2]}

\* another client of the instance pushes or deletes a check
CheckOutOfBand(body, delete) ==
    LET at == RemoteCheckAt(remoteChecks, body)
    IN  /\ Idle
        /\ managed = "check"
        /\ importing = Nil
        /\ IF delete
           THEN remoteChecks' = remoteChecks \ at
           ELSE /\ at = {} => RemoteNextId(remoteChecks) <= MaxId
                /\ remoteChecks' = RemoteCheckUpsert(remoteChecks, body)
        /\ remoteChecks' # remoteChecks
        /\ applied' = Nil
        /\ UNCHANGED <<client, provDiags, hostState, checkState, importing, remoteHosts,
                       managed, last>>

(***************************************************************************)
(* The orchestrator's runs                                                 *)
(***************************************************************************)
ImportAlphabet == {"a", "p", "/"}
ImportIds == UNION {[1..n -> ImportAlphabet] : n \in 0..MaxIdLen}
CheckImportSamples ==
    {<<"a">>, <<"a", "/", "p">>, <<"a", "/", "p", "/", "{", "/", "}">>,
     <<"b", "/", "p", "/", "{", "}">>}

Init ==
    /\ client = Nil
    /\ provDiags = << >>
    /\ hostState = Nil
    /\ checkState = Nil
    /\ importing = Nil
    /\ remoteHosts = {}
    /\ remoteChecks = {}
    /\ managed \in {"host", "check"}
    /\ applied = Nil
    /\ last = NoOp

Next ==
    \/ \E cu \in ConfigValues(UrlTexts), ck \in ConfigValues(KeyTexts),
          eu \in EnvUrls, ek \in EnvKeys : Configure(cu, ck, eu, ek)
    \/ Return
    \/ \E cfg \in HostConfigs, ans \in Answers : HostCreate(cfg, ans)
    \/ \E ans \in Answers : HostRead(ans)
    \/ \E cfg \in HostConfigs, ans \in Answers : HostUpdate(cfg, ans)
    \/ \E ans \in Answers : HostDelete(ans)
    \/ \E id \in HostAddresses : HostImportState(id)
    \/ \E body \in HostPushes, delete \in BOOLEAN : HostOutOfBand(body, delete)
    \/ \E cfg \in CheckConfigs, ans \in Answers : CheckCreate(cfg, ans)
    \/ \E ans \in Answers : CheckRead(ans)
    \/ \E cfg \in CheckConfigs, ans \in Answers : CheckUpdate(cfg, ans)
    \/ \E ans \in Answers : CheckDelete(ans)
    \/ \E id \in CheckImportSamples : CheckImportState(id)
    \/ \E body \in CheckPushes, delete \in BOOLEAN : CheckOutOfBand(body, delete)

Spec == Init /\ [][Next]_vars

\* the imports of checks alone, over every identifier up to MaxIdLen characters
InitImport ==
    /\ client = [URL |-> <<"u", "/">>, APIKey |-> <<"k">>]
    /\ provDiags = << >>
    /\ hostState = Nil
    /\ checkState = Nil
    /\ importing = Nil
    /\ remoteHosts = {}
    /\ remoteChecks = {}
    /\ managed = "check"
    /\ applied = Nil
    /\ last = NoOp

NextImport ==
    \/ \E id \in ImportIds : CheckImportState(id)
    \/ \E ans \in Answers : CheckRead(ans)
    \/ Return

SpecImport == InitImport /\ [][NextImport]_vars

(***************************************************************************)
(* Properties                                                              *)
(***************************************************************************)
IsUpsert == last.op \in {"Create", "Update"}
IsCrud == last.op \in {"Create", "Read", "Update", "Delete"}
Succeeded == last.err = NoErr /\ last.diags = << >>
GotRecord == last.resp.kind = "http" /\ last.resp.body.kind = "json"
AfterUpsert == last.applied # Nil /\ last.applied.op = "upsert"
AfterDelete == last.applied # Nil /\ last.applied.op = "delete"

HostAttrs == {"ID", "Address", "Name", "Description", "Topic", "Enabled"}
CheckAttrs == {"ID", "HostAddress", "Type", "Config", "IntervalSeconds", "Enabled"}

\* a host Read that follows a successful upsert of the same address, the
\* instance untouched in between and answering with the host's record
HostReadAfterUpsert ==
    /\ last.res = "host" /\ last.op = "Read"
    /\ AfterUpsert
    /\ Succeeded /\ GotRecord
    /\ ValueString(last.prior.Address) = last.applied.body.address

HostKeyOf(state) == ValueString(state.Address)
CheckKeyOf(state) ==
    [host_address |-> ValueString(state.HostAddress), type |-> ValueString(state.Type),
     config |-> ValueString(state.Config)]
CheckKeyOfBody(body) ==
    [host_address |-> body.host_address, type |-> body.type, config |-> body.config]

\* C2: Update is never planned or sent with a key other than the key in prior
\* state; Delete names the key in prior state and, when it succeeds, leaves no
\* entity at that key and nothing stored; Create runs only with nothing stored.
\* A change of key therefore is a Delete of the old key and a Create of the new.
C2_KeyChangeIsDeleteThenCreate ==
    /\ (last.res = "host" /\ last.op = "Update") =>
            /\ last.plan.Address = last.prior.Address
            /\ \A i \in 1..Len(last.calls) : last.calls[i].body.address = HostKeyOf(last.prior)
            /\ Succeeded => {h.address : h \in remoteHosts} =
                                {h.address : h \in last.remote} \cup {HostKeyOf(last.prior)}
    /\ (last.res = "check" /\ last.op = "Update") =>
            /\ \A attr \in {"HostAddress", "Type", "Config"} : last.plan[attr] = last.prior[attr]
            /\ \A i \in 1..Len(last.calls) :
                    CheckKeyOfBody(last.calls[i].body) = CheckKeyOf(last.prior)
            /\ Succeeded => {CheckKeyOfBody(c) : c \in remoteChecks} =
                                {CheckKeyOfBody(c) : c \in last.remote} \cup {CheckKeyOf(last.prior)}
    /\ (last.res = "host" /\ last.op = "Delete") =>
            /\ \A i \in 1..Len(last.calls) : last.calls[i].body.address = HostKeyOf(last.prior)
            /\ Succeeded => /\ hostState = Nil
                            /\ RemoteHostAt(remoteHosts, HostKeyOf(last.prior)) = {}
    /\ (last.res = "check" /\ last.op = "Delete") =>
            /\ \A i \in 1..Len(last.calls) : last.calls[i].body = CheckKeyOf(last.prior)
            /\ Succeeded => /\ checkState = Nil
                            /\ RemoteCheckAt(remoteChecks, CheckKeyOf(last.prior)) = {}
    /\ last.op = "Create" => last.stored = Nil

\* C2 happens: a check is created under a new config right after the Delete of
\* the check under the old one, which is gone from the instance
C2_Witness ==
    /\ last.res = "check" /\ last.op = "Create" /\ Succeeded
    /\ AfterDelete
    /\ last.calls[1].body.config # last.applied.body.config
    /\ last.calls[1].body.host_address = last.applied.body.host_address
    /\ RemoteCheckAt(remoteChecks, last.applied.body) = {}

NonSuccessStatus ==
    /\ IsCrud
    /\ last.resp.kind = "http"
    /\ (last.resp.status < 200 \/ last.resp.status > 299)

\* C3: when the instance answers Create, Read, Update or Delete of a host or a
\* check with a status outside 200..299, the operation reports one error that
\* carries that status and the response body as received, and the stored state
\* is the one from before the operation.
C3_NonSuccessStatusIsError ==
    NonSuccessStatus =>
        /\ Len(last.diags) = 1
        /\ last.diags[1].detail = last.err
        /\ last.err.kind = "API returned status"
        /\ last.err.status = last.resp.status
        /\ last.err.body = last.resp.body
        /\ Stored(last.res) = last.stored

\* C3 happens: a host Update answered 300 with a text body, state being stored
C3_Witness ==
    /\ NonSuccessStatus
    /\ last.res = "host" /\ last.op = "Update"
    /\ last.resp.status = 300 /\ last.resp.body = TextBody
    /\ hostState # Nil

Slashes(id) == {i \in 1..Len(id) : id[i] = "/"}
Least(S) == CHOOSE i \in S : \A j \in S : i <= j
IsCheckImport == last.res = "check" /\ last.op = "Import"

\* C4: for a check import identifier with a slash, host_address is the text
\* before the first slash and type the text between the first and the second
\* slash (all after the first when there is one slash only); config is "{}"
\* with two segments, and with three all the text after the second slash,
\* further slashes included.
C4_ImportSplitsOnFirstTwoSlashes ==
    (IsCheckImport /\ Slashes(last.cfg) # {}) =>
        LET id == last.cfg
            first == Least(Slashes(id))
            rest == Slashes(id) \ {first}
        IN  /\ importing # Nil
            /\ importing.HostAddress = StringValue(SubSeq(id, 1, first - 1))
            /\ IF rest = {}
               THEN /\ importing.Type = StringValue(SubSeq(id, first + 1, Len(id)))
                    /\ importing.Config = StringValue(<<"{", "}">>)
               ELSE /\ importing.Type = StringValue(SubSeq(id, first + 1, Least(rest) - 1))
                    /\ importing.Config = StringValue(SubSeq(id, Least(rest) + 1, Len(id)))

\* C4 happens: an identifier with three slashes, the last one kept in config
C4_Witness ==
    /\ IsCheckImport
    /\ last.cfg = <<"a", "/", "p", "/", "/">>
    /\ importing # Nil
    /\ importing.Config = StringValue(<<"/">>)

\* C5: a check import reports the invalid-import-ID error exactly when the
\* identifier has no slash; then no attribute is written to state; with a slash,
\* empty segments included, there is no error and the three key attributes are
\* written.
C5_InvalidImportIdIffNoSlash ==
    IsCheckImport =>
        /\ (last.diags # << >>) <=> (Slashes(last.cfg) = {})
        /\ last.diags # << >> =>
                /\ Len(last.diags) = 1
                /\ last.diags[1].summary = "Invalid import ID"
                /\ importing = Nil
                /\ checkState = Nil
        /\ last.diags = << >> =>
                /\ importing # Nil
                /\ \A attr \in {"HostAddress", "Type", "Config"} : ~IsNull(importing[attr])

\* C5 happens: the identifier "/" alone, two empty segments, is accepted
C5_Witness ==
    /\ IsCheckImport
    /\ last.cfg = <<"/">>
    /\ last.diags = << >>
    /\ importing # Nil
    /\ importing.HostAddress = StringValue(<< >>)

\* C6: Create and Update of a host or a check send enabled as 0 when the
\* configuration says false and as 1 when it says true or nothing; a response
\* that is mapped to state stores false for 0 and true for any other value; a
\* configured boolean so comes back from the wire value it was sent as.
C6_EnabledWireEncoding ==
    /\ (IsUpsert /\ last.res \in {"host", "check"}) =>
            \A i \in 1..Len(last.calls) :
                last.calls[i].body.enabled =
                    IF last.cfg.enabled = BoolValue(FALSE) THEN 0 ELSE 1
    /\ (IsCrud /\ last.op # "Delete" /\ Succeeded /\ GotRecord) =>
            /\ last.resp.body.obj.enabled = 0 => Stored(last.res).Enabled = BoolValue(FALSE)
            /\ last.resp.body.obj.enabled # 0 => Stored(last.res).Enabled = BoolValue(TRUE)
    /\ (IsUpsert /\ Succeeded /\ GotRecord /\ ~IsNull(last.cfg.enabled)) =>
            /\ last.resp.body.obj.enabled = last.calls[1].body.enabled
            /\ Stored(last.res).Enabled = last.cfg.enabled

\* C6 happens: a check configured disabled is sent as 0 and stored as false
C6_Witness ==
    /\ last.res = "check" /\ last.op = "Update" /\ Succeeded /\ GotRecord
    /\ last.cfg.enabled = BoolValue(FALSE)
    /\ last.calls[1].body.enabled = 0
    /\ checkState.Enabled = BoolValue(FALSE)

\* C6 also happens for a wire value other than 0 and 1
C6_NonZeroSeen ==
    /\ last.op = "Read" /\ Succeeded /\ GotRecord
    /\ last.resp.body.obj.enabled = 2

IsOperation == last.res \in {"host", "check"} /\ (IsCrud \/ last.op = "Import")

\* C7 as stated: each of Create, Read, Update, Delete and Import issues exactly
\* one HTTP call.
C7_EveryOperationOneCall ==
    IsOperation => Len(last.calls) = 1

\* C7: Create, Read, Update and Delete issue exactly one HTTP call, answered or
\* failed before they return, unless the request cannot be built from the URL,
\* when they issue none; ImportState issues none.
C7_OneCallExceptImport ==
    /\ (IsOperation /\ IsCrud) =>
            /\ Len(last.calls) <= 1
            /\ (Len(last.calls) = 0) <=> (last.err.kind = "creating request")
            /\ (Len(last.calls) = 0) <=> ~NewRequestOK(client.URL)
            /\ (Len(last.calls) = 1) <=> (last.resp.kind \in {"http", "transport"})
    /\ (IsOperation /\ last.op = "Import") =>
            /\ last.calls = << >>
            /\ last.resp = NoResponse

\* C7 happens: a host import has returned without a call
C7_Witness ==
    /\ last.res = "host" /\ last.op = "Import"
    /\ importing # Nil
    /\ last.calls = << >>

\* the stored value the response's field stands for
Decoded(attr, v) == IF attr = "Enabled" THEN BoolValue(v # 0) ELSE [k |-> "val", v |-> v]

HostField ==
    [ID |-> "id", Address |-> "address", Name |-> "name", Description |-> "description",
     Topic |-> "topic", Enabled |-> "enabled"]
CheckField ==
    [ID |-> "id", HostAddress |-> "host_address", Type |-> "type", Config |-> "config",
     IntervalSeconds |-> "interval_seconds", Enabled |-> "enabled"]
FieldOf(res) == IF res = "host" THEN HostField ELSE CheckField

\* the stored attribute is the value the response carries for it
FromResponse(res, attr) ==
    LET f == FieldOf(res)[attr]
        obj == last.resp.body.obj
    IN  /\ f \in DOMAIN obj
        /\ Stored(res)[attr] = Decoded(attr, obj[f])

ReadGotRecord ==
    /\ last.res \in {"host", "check"} /\ last.op = "Read"
    /\ Succeeded /\ GotRecord

\* C8 as stated: after a successful Read every stored attribute of the host or
\* the check, key attributes included, is the value the response returned.
C8_ReadOverwritesEveryAttribute ==
    ReadGotRecord =>
        \A attr \in DOMAIN FieldOf(last.res) : FromResponse(last.res, attr)

\* C8: after a successful Read answered with the record, every stored attribute
\* of a host, and every stored attribute of a check but host_address, is the
\* value the response returned (enabled: whether the value is not 0); a check's
\* host_address is not in the response and stays as it was before the Read.
C8_ReadOverwritesAllButHostAddress ==
    ReadGotRecord =>
        /\ \A attr \in DOMAIN FieldOf(last.res) \ {"HostAddress"} :
                FromResponse(last.res, attr)
        /\ last.res = "check" =>
                /\ "host_address" \notin DOMAIN last.resp.body.obj
                /\ checkState.HostAddress = last.prior.HostAddress

\* C8 happens: a Read replaces a stored interval by another the instance holds
C8_Witness ==
    /\ ReadGotRecord
    /\ last.res = "check"
    /\ last.stored # Nil
    /\ last.stored.IntervalSeconds # checkState.IntervalSeconds
    /\ checkState.IntervalSeconds = Int64Value(last.resp.body.obj.interval_seconds)

\* what a provider setting resolves to
Resolved(configured, env) == IF configured.k = "val" THEN configured.v ELSE env

\* C9: url and api_key each resolve to the configuration value when it is set
\* and known, else to the environment variable; Configure reports an error
\* exactly when one of them resolves to the empty string, and hands a client
\* over, holding the two resolved values, exactly when neither does; no
\* operation issues a call without a client whose URL and key are non-empty.
C9_ProviderConfiguration ==
    /\ last.op = "Configure" =>
            LET url == Resolved(last.cfg.url, last.cfg.envUrl)
                key == Resolved(last.cfg.api_key, last.cfg.envKey)
            IN  /\ (last.diags # << >>) <=> (url = << >> \/ key = << >>)
                /\ (client # Nil) <=> (url # << >> /\ key # << >>)
                /\ client # Nil => client = [URL |-> url, APIKey |-> key]
                /\ provDiags = last.diags
    /\ last.calls # << >> =>
            /\ client # Nil /\ provDiags = << >>
            /\ client.URL # << >> /\ client.APIKey # << >>
    /\ (last.res \in {"host", "check"}) => (client # Nil /\ provDiags = << >>)

\* C9 happens: url is set to the empty string in the configuration while the
\* environment holds one; Configure reports the error and hands no client
C9_Witness ==
    /\ last.op = "Configure"
    /\ last.cfg.url = StringValue(<< >>)
    /\ last.cfg.envUrl # << >>
    /\ Resolved(last.cfg.api_key, last.cfg.envKey) # << >>
    /\ last.diags # << >>
    /\ client = Nil

\* the request body a desired attribute set is sent as
HostWire(cfg) ==
    LET text(x) == IF x.k = "val" THEN x.v ELSE << >>
        base == [address |-> text(cfg.address), description |-> text(cfg.description),
                 topic |-> text(cfg.topic),
                 enabled |-> IF cfg.enabled = BoolValue(FALSE) THEN 0 ELSE 1]
    IN  IF text(cfg.name) = << >> THEN base
        ELSE [f \in DOMAIN base \cup {"name"} |->
                IF f = "name" THEN text(cfg.name) ELSE base[f]]

CheckWire(cfg) ==
    [host_address |-> cfg.host_address.v,
     type |-> cfg.type.v,
     config |-> IF cfg.config.k = "val" THEN cfg.config.v ELSE <<"{", "}">>,
     interval_seconds |-> IF cfg.interval_seconds.k = "val" THEN cfg.interval_seconds.v ELSE 300,
     enabled |-> IF cfg.enabled = BoolValue(FALSE) THEN 0 ELSE 1]

\* the state a response is stored as
HostMapped(obj) ==
    [ID |-> Int64Value(obj.id), Address |-> StringValue(obj.address),
     Name |-> StringValue(obj.name), Description |-> StringValue(obj.description),
     Topic |-> StringValue(obj.topic), Enabled |-> BoolValue(obj.enabled # 0)]

CheckMapped(obj, cfg) ==
    [ID |-> Int64Value(obj.id), HostAddress |-> cfg.host_address,
     Type |-> StringValue(obj.type), Config |-> StringValue(obj.config),
     IntervalSeconds |-> Int64Value(obj.interval_seconds),
     Enabled |-> BoolValue(obj.enabled # 0)]

\* an Update sending again what the upsert before it sent, nothing in between
SecondUpsert ==
    /\ last.op = "Update" /\ Succeeded /\ GotRecord
    /\ AfterUpsert
    /\ last.applied.body = last.calls[1].body

IsRead == last.res \in {"host", "check"} /\ last.op = "Read"

\* C11: a Read answered with any status outside 200..299, 404 like every other,
\* reports the one error of the same kind, which only carries the status and the
\* body, and leaves the stored state as it was; so a host or a check deleted on
\* the instance by others stays in state after the next Read. No Read, whatever
\* its outcome, removes a stored resource from state.
C11_ReadKeepsResourceOnAnyStatus ==
    /\ (IsRead /\ NonSuccessStatus) =>
            /\ Len(last.calls) = 1
            /\ last.err = [kind |-> "API returned status", method |-> "GET",
                           path |-> last.calls[1].path,
                           status |-> last.resp.status, body |-> last.resp.body]
            /\ last.diags = <<Diag(IF last.res = "host" THEN "Error reading host"
                                   ELSE "Error reading check", last.err)>>
            /\ Stored(last.res) = last.stored
    /\ (IsRead /\ last.stored # Nil) => Stored(last.res) # Nil

\* C11 happens: a stored host is gone from the instance, the Read is answered
\* 404, and the host is in state as before
C11_Witness ==
    /\ IsRead /\ last.res = "host"
    /\ last.stored # Nil
    /\ RemoteHostAt(remoteHosts, ValueString(last.stored.Address)) = {}
    /\ last.resp.kind = "http" /\ last.resp.status = 404
    /\ hostState = last.stored

IsDelete == last.res \in {"host", "check"} /\ last.op = "Delete"

\* C12: Delete of a host sends one DELETE to /api/push/hosts whose body is the
\* address of the prior state and nothing else, Delete of a check one DELETE to
\* /api/push/checks whose body is host_address, type and config of the prior
\* state and nothing else; no other request follows it, and the one request
\* leaves whenever it can be built from the URL. Answered 2xx, Delete succeeds
\* and nothing is stored any more; when it fails, the stored state is the one
\* from before.
C12_DeleteSendsKeyOnly ==
    IsDelete =>
        /\ Len(last.calls) <= 1
        /\ (Len(last.calls) = 1) <=> (last.err.kind # "creating request")
        /\ \A i \in 1..Len(last.calls) :
                /\ last.calls[i].method = "DELETE"
                /\ last.calls[i].path =
                        IF last.res = "host" THEN <<"/api/push/hosts">>
                        ELSE <<"/api/push/checks">>
                /\ last.calls[i].body =
                        IF last.res = "host"
                        THEN [address |-> last.prior.Address.v]
                        ELSE [host_address |-> last.prior.HostAddress.v,
                              type |-> last.prior.Type.v,
                              config |-> last.prior.Config.v]
        /\ (last.resp.kind = "http" /\ Is2xx(last.resp.status)) =>
                /\ Succeeded
                /\ Stored(last.res) = Nil
        /\ Succeeded => Stored(last.res) = Nil
        /\ ~Succeeded =>
                /\ last.err # NoErr
                /\ Len(last.diags) = 1
                /\ last.stored # Nil
                /\ Stored(last.res) = last.stored

\* C12 happens: the Delete of a stored check with an id is answered 200 with a
\* text body; the check is gone from state and from the instance
C12_Witness ==
    /\ IsDelete /\ last.res = "check"
    /\ last.prior.ID = Int64Value(2)
    /\ last.resp = HttpResponse(200, TextBody)
    /\ Len(last.calls) = 1
    /\ checkState = Nil
    /\ RemoteCheckAt(remoteChecks, last.calls[1].body) = {}

\* C12 also happens in its failing case: a host Delete fails on the transport
C12_FailureSeen ==
    /\ IsDelete /\ last.res = "host"
    /\ last.resp = TransportFailure
    /\ hostState = last.stored

\* the ids a stored state can hold
IdValues == {Null, Unknown} \cup {Int64Value(n) : n \in 0..MaxId}

\* the prior state of the last operation with another id
PriorWithId(id) == [last.prior EXCEPT !.ID = id]

\* C13: the id takes no part in addressing: the request a Read or a Delete
\* sends for a stored host or check is the request it sends for any stored
\* state with the same key and another id, in method, path, query and body.
C13_IdNeverAddresses ==
    /\ (IsRead /\ last.res = "host") =>
            \A i \in 1..Len(last.calls), id \in IdValues :
                /\ last.calls[i].method = "GET"
                /\ last.calls[i].path = HostReadPath(PriorWithId(id))
                /\ last.calls[i].body = Nil
    /\ (IsRead /\ last.res = "check") =>
            \A i \in 1..Len(last.calls), id \in IdValues :
                /\ last.calls[i].method = "GET"
                /\ last.calls[i].path = CheckReadPath(PriorWithId(id))
                /\ last.calls[i].body = Nil
    /\ (IsDelete /\ last.res = "host") =>
            \A i \in 1..Len(last.calls), id \in IdValues :
                /\ last.calls[i].method = "DELETE"
                /\ last.calls[i].path = HostsPath
                /\ last.calls[i].body = HostDeleteBody(PriorWithId(id))
    /\ (IsDelete /\ last.res = "check") =>
            \A i \in 1..Len(last.calls), id \in IdValues :
                /\ last.calls[i].method = "DELETE"
                /\ last.calls[i].path = ChecksPath
                /\ last.calls[i].body = CheckDeleteBody(PriorWithId(id))

\* C13 happens: the host at address a is read while stored with id 2, as it is
\* when the instance gave id 1 to another host first
C13_Witness ==
    /\ IsRead /\ last.res = "host"
    /\ last.prior.Address = StringValue(<<"a">>)
    /\ last.prior.ID = Int64Value(2)
    /\ Len(last.calls) = 1
    /\ last.calls[1].path = <<"/api/push/hosts?address=", "a">>

\* C13 also happens with the same host stored with id 1
C13_OtherIdSeen ==
    /\ IsRead /\ last.res = "host"
    /\ last.prior.Address = StringValue(<<"a">>)
    /\ last.prior.ID = Int64Value(1)
    /\ Len(last.calls) = 1
    /\ last.calls[1].path = <<"/api/push/hosts?address=", "a">>

\* a Create, Update or Read that sent its request and ended without an error
WroteState ==
    /\ last.res \in {"host", "check"}
    /\ last.op \in {"Create", "Update", "Read"}
    /\ Succeeded
    /\ Len(last.calls) = 1

\* the key the stored state holds is the key the request named
KeyKept ==
    IF last.res = "host"
    THEN HostKeyOf(hostState) = RemoteHostKey(last.calls[1])
    ELSE CheckKeyOf(checkState) = RemoteCheckKey(last.calls[1])

\* C14 as stated: after every successful Create, Update or Read, whatever the
\* 2xx response, an empty one included, the stored address of the host is the
\* address the request named, and the stored host_address, type and config of
\* the check are the three the request named.
C14_KeyStableAfterSuccess ==
    WroteState => KeyKept

\* C14, the part that holds: the stored key is the key the request named when
\* the 2xx response carries the record.
C14_KeyStableWithRecord ==
    (WroteState /\ GotRecord) => KeyKept

\* C14 fails here: the Create of the host at address a is answered 200 with an
\* empty body and succeeds; the stored address is the empty string, the id 0
C14_Witness ==
    /\ WroteState
    /\ last.res = "host" /\ last.op = "Create"
    /\ last.cfg.address = StringValue(<<"a">>)
    /\ last.resp = HttpResponse(200, EmptyBody)
    /\ hostState.Address = StringValue(<< >>)
    /\ hostState.ID = Int64Value(0)

\* C14 fails for a check as well: after a Read answered 299 with an empty
\* body, type and config are empty strings and host_address is kept
C14_CheckSeen ==
    /\ WroteState
    /\ last.res = "check" /\ last.op = "Read"
    /\ last.resp = HttpResponse(299, EmptyBody)
    /\ checkState.HostAddress = last.prior.HostAddress
    /\ checkState.Type = StringValue(<< >>)
    /\ checkState.Config = StringValue(<< >>)
    /\ last.prior.Type = StringValue(<<"p">>)

====
